---- MODULE Spec2Model ----
(***************************************************************************)
(* A model of CL-MOT's training-data pipeline and multi-task loss:         *)
(*   src/src/lib/datasets/dataset/jde.py  (LoadImagesAndLabels, JointDataset,*)
(*                                          random_affine, letterbox)      *)
(*   src/src/lib/trains/mot.py            (MotLoss, MotTrainer._get_losses)*)
(*                                                                         *)
(* Real numbers (float32 label columns, pixel and grid coordinates) are    *)
(* fixed-point integers: the integer v stands for the real v / FP.         *)
(* Python's 0-based positions k are the 1-based positions k + 1 of the     *)
(* sequences below.                                                        *)
(***************************************************************************)
EXTENDS Integers, Sequences, FiniteSets, TLC

VARIABLES
    label_files,   \* the label files on disk: datasets in registration order,
                   \* each a sequence of files [exists, rows]
    opt,           \* the options object (opt.unsup, opt.K, ...)
    augment,       \* JointDataset(..., augment=...)
    jd,            \* the JointDataset object
    ret,           \* what the last JointDataset.__getitem__ returned or raised
    loss,          \* the MotLoss object MotTrainer._get_losses builds
    out,           \* what the last MotLoss.forward returned or raised
    aff,           \* the arguments and the result of a random_affine call
    coll           \* the argument and the result of a collate_fn call

vars == <<label_files, opt, augment, jd, ret, loss, out, aff, coll>>

(***************************************************************************)
(* Bounds of the model                                                     *)
(***************************************************************************)
MaxDatasets == 2      \* datasets registered in `paths`
MaxSamples == 2       \* samples over all datasets of an identity-space world
MaxCount == 5         \* samples per dataset of an indexing world
MaxRows == 2          \* rows of a label file of an encoding world
MaxId == 1            \* local identities are -1 .. MaxId
MaxK == 2             \* opt.K is 1 .. MaxK
MaxStacks == 2        \* opt.num_stacks is 1 .. MaxStacks
MaxS == 1             \* s_det and s_id are -k ln 2 for k in 0 .. MaxS
MaxBatch == 3         \* samples of a batch handed to collate_fn
Width == 32           \* img_size[0], the network input width in pixels
Height == 32          \* img_size[1]

(***************************************************************************)
(* Program constants and numeric helpers                                   *)
(***************************************************************************)
FP == 1024

DownRatio == 4

Min(a, b) == IF a < b THEN a ELSE b

Max(a, b) == IF a > b THEN a ELSE b

\* np.clip(v, lo, hi)
Clip(v, lo, hi) == Min(Max(v, lo), hi)

\* the product of two fixed-point reals
Mul(a, b) == (a * b) \div FP

\* Python's round() of a fixed-point real, as an integer
Round(a) == (a + FP \div 2) \div FP

RECURSIVE SeqSum(_)
SeqSum(s) == IF s = <<>> THEN 0 ELSE Head(s) + SeqSum(Tail(s))

\* s[:n]
Prefix(s, n) == SubSeq(s, 1, n)

\* np.zeros((n,))
Zeros(n) == [i \in 1..n |-> 0]

\* np.zeros((n, 2))
Zeros2(n) == [i \in 1..n |-> <<0, 0>>]

(***************************************************************************)
(* Label files.  A row is <<class, identity, x, y, w, h>>, the box columns *)
(* normalised to the image (fixed point).                                  *)
(***************************************************************************)
Row(id, box) == <<0, id, box[1], box[2], box[3], box[4]>>

\* a box centred exactly on output cell (5, 5), half the image wide and high
BoxCell == <<(5 * FP) \div 8, (5 * FP) \div 8, FP \div 2, FP \div 2>>

\* a small box with a sub-pixel centre
BoxSmall == <<(21 * FP) \div 64, FP \div 2, FP \div 4, FP \div 4>>

\* a box of zero width
BoxFlat == <<FP \div 2, FP \div 2, 0, FP \div 4>>

\* a box whose centre lies outside the image
BoxOut == <<(5 * FP) \div 4, 0 - FP \div 4, FP \div 2, FP \div 2>>

Boxes == {BoxCell, BoxSmall, BoxFlat, BoxOut}

Ids == (0 - 1)..MaxId

NoFile == [exists |-> FALSE, rows |-> <<>>]

File(rows) == [exists |-> TRUE, rows |-> rows]

SeqsUpTo(S, n) == UNION {[1..m -> S] : m \in 0..n}

\* label files of an identity-space world: missing, empty, one row of any
\* identity, or the highest identity followed by an unknown one
IdFiles ==
    {NoFile} \cup {File(rows) : rows \in SeqsUpTo({Row(id, BoxCell) : id \in Ids}, 1)}
        \cup {File(<<Row(MaxId, BoxCell), Row(0 - 1, BoxCell)>>)}

\* label files of an encoding world: up to MaxRows rows of any box
EncFiles ==
    {File(rows) : rows \in SeqsUpTo({Row(id, box) : id \in {0 - 1, 0}, box \in Boxes}, MaxRows)}

\* split the flat sequence `flat` into datasets of cnt[1], cnt[2], ... files
Split(flat, cnt) ==
    [d \in 1..Len(cnt) |->
        SubSeq(flat, SeqSum(Prefix(cnt, d - 1)) + 1, SeqSum(Prefix(cnt, d)))]

\* one configuration of every option the two files read
DefaultOpt ==
    [unsup |-> FALSE, K |-> MaxK, mse_loss |-> FALSE, reg_loss |-> "l1",
     dense_wh |-> FALSE, norm_wh |-> FALSE, cat_spec_wh |-> FALSE,
     unsup_loss |-> "nt_xent", reg_offset |-> TRUE,
     hm_weight |-> 1, wh_weight |-> 1, off_weight |-> 1, id_weight |-> 1,
     num_stacks |-> 1]

\* the options of a dataset world: opt.unsup and opt.K vary
Opts == {[DefaultOpt EXCEPT !.unsup = u, !.K = k] : u \in BOOLEAN, k \in 1..MaxK}

\* the options of a loss world: everything MotLoss reads varies; "l2" and
\* "other" stand for names the constructor does not know
LossOpts ==
    {[DefaultOpt EXCEPT !.unsup = o.unsup, !.mse_loss = o.mse_loss,
                        !.reg_loss = o.reg_loss, !.dense_wh = o.dense_wh,
                        !.norm_wh = o.norm_wh, !.cat_spec_wh = o.cat_spec_wh,
                        !.unsup_loss = o.unsup_loss, !.reg_offset = o.reg_offset,
                        !.wh_weight = o.wh_weight, !.off_weight = o.off_weight,
                        !.id_weight = o.id_weight, !.num_stacks = o.num_stacks] :
        o \in [unsup : BOOLEAN, mse_loss : BOOLEAN, reg_loss : {"l1", "sl1", "l2"},
               dense_wh : BOOLEAN, norm_wh : BOOLEAN, cat_spec_wh : BOOLEAN,
               unsup_loss : {"nt_xent", "triplet_all", "triplet_hard", "other"},
               reg_offset : BOOLEAN, wh_weight : {0, 1}, off_weight : {0, 1},
               id_weight : {0, 1}, num_stacks : 1..MaxStacks]}

NoRet == [status |-> "none"]

NewJd == [state |-> "new"]

NoLoss == [state |-> "new"]

NoOut == [status |-> "none"]

NoAff == [state |-> "none"]

NoColl == [state |-> "none"]

InitObjects ==
    /\ jd = NewJd
    /\ ret = NoRet
    /\ loss = NoLoss
    /\ out = NoOut
    /\ aff = NoAff
    /\ coll = NoColl

\* identity-space worlds: up to MaxDatasets datasets holding up to
\* MaxSamples label files together
InitJoint ==
    /\ \E m \in 1..MaxDatasets : \E cnt \in [1..m -> 0..MaxSamples] :
          /\ SeqSum(cnt) <= MaxSamples
          /\ \E flat \in [1..SeqSum(cnt) -> IdFiles] : label_files = Split(flat, cnt)
    /\ opt \in Opts
    /\ augment \in BOOLEAN
    /\ InitObjects

\* indexing worlds: up to MaxDatasets datasets of up to MaxCount samples,
\* every label file holding the same single row
InitIndex ==
    /\ \E m \in 1..MaxDatasets : \E cnt \in [1..m -> 0..MaxCount] :
          label_files = [d \in 1..m |-> [i \in 1..cnt[d] |-> File(<<Row(0, BoxCell)>>)]]
    /\ opt \in Opts
    /\ augment \in BOOLEAN
    /\ InitObjects

\* encoding worlds: one dataset of one sample, its label file any of EncFiles
InitEncode ==
    /\ \E f \in EncFiles : label_files = <<<<f>>>>
    /\ opt \in Opts
    /\ augment \in BOOLEAN
    /\ InitObjects

\* loss worlds: no dataset, any configuration of the loss
InitLoss ==
    /\ label_files = <<>>
    /\ opt \in LossOpts
    /\ augment = FALSE
    /\ InitObjects

(***************************************************************************)
(* JointDataset.__init__                                                   *)
(***************************************************************************)
\* np.max(lb[:, 1])
RECURSIVE MaxIdentity(_)
MaxIdentity(rows) ==
    IF Len(rows) = 1 THEN rows[1][2]
    ELSE Max(rows[1][2], MaxIdentity(Tail(rows)))

\* the highest identity of one label file (lines 404-410); np.loadtxt gives
\* a 1-d array for a file of one row and a 2-d array for more rows
ImgMax(rows) ==
    IF Len(rows) = 1 THEN rows[1][2] ELSE MaxIdentity(rows)

\* the loop over one dataset's label paths (lines 402-412)
RECURSIVE ScanMaxIndex(_, _)
ScanMaxIndex(files, max_index) ==
    IF files = <<>> THEN max_index
    ELSE LET lb == Head(files).rows
         IN  IF Len(lb) < 1 THEN ScanMaxIndex(Tail(files), max_index)
             ELSE IF ImgMax(lb) > max_index
                  THEN ScanMaxIndex(Tail(files), ImgMax(lb))
                  ELSE ScanMaxIndex(Tail(files), max_index)

\* self.tid_num[ds] = max_index + 1 (line 413)
TidNum(files) == ScanMaxIndex(files, 0 - 1) + 1

\* a slip: last_index += v before self.tid_start_index[k] = last_index
TidStartIndexInclusive(tid_num) == [d \in 1..Len(tid_num) |-> SeqSum(Prefix(tid_num, d))]

\* self.tid_start_index[k] = last_index; last_index += v (lines 416-419)
TidStartIndex(tid_num) == [d \in 1..Len(tid_num) |-> SeqSum(Prefix(tid_num, d - 1))]

\* self.nID = int(last_index + 1) (line 422)
NID(tid_num) == SeqSum(tid_num) + 1

\* self.cds.append(self.nF - img_cnt) (lines 425-431)
Cds(img_num) == [d \in 1..Len(img_num) |-> SeqSum(Prefix(img_num, d)) - img_num[d]]

\* np.loadtxt(lp) raises OSError when the file lp does not exist (line 404)
LoadTxtRaises(files) == \E i \in 1..Len(files) : ~files[i].exists

JointDatasetInit ==
    /\ jd.state = "new"
    /\ jd' =
          IF \E d \in 1..Len(label_files) : LoadTxtRaises(label_files[d])
          THEN [state |-> "raised", error |-> "OSError"]
          ELSE LET tid_num == [d \in 1..Len(label_files) |-> TidNum(label_files[d])]
                   img_num == [d \in 1..Len(label_files) |-> Len(label_files[d])]
               IN  [state |-> "ok",
                    tid_num |-> tid_num,
                    tid_start_index |-> TidStartIndex(tid_num),
                    nID |-> NID(tid_num),
                    img_num |-> img_num,
                    cds |-> Cds(img_num),
                    nF |-> SeqSum(img_num),
                    max_objs |-> opt.K,
                    unsup |-> opt.unsup,
                    augment |-> augment]
    /\ UNCHANGED <<label_files, opt, augment, ret, loss, out, aff, coll>>

(***************************************************************************)
(* letterbox and random_affine                                             *)
(***************************************************************************)
\* the decoded image is as large as the network input
ImgW == Width

ImgH == Height

\* letterbox(img, height, width): the ratio and the paddings (lines 264-273)
Letterbox(h0, w0) ==
    LET ratio == Min((Height * FP) \div h0, (Width * FP) \div w0)
        new_w == Round(w0 * ratio)
        new_h == Round(h0 * ratio)
    IN  [ratio |-> ratio,
         dw |-> ((Width - new_w) * FP) \div 2,
         dh |-> ((Height - new_h) * FP) \div 2]

\* the shape of the image get_data hands to random_affine: letterbox pads
\* it to height x width (lines 192, 214)
LetterboxedImg == [height |-> Height, width |-> Width]

\* The outcomes of random_affine's random.random() calls that the model
\* draws: the rotation angle a and both shear angles are 0 (the middle of
\* their ranges), the scale s is 0.5 or 1.0 (inside scale=(0.50, 1.20)) and
\* the translations are 0 or 2 pixels (inside 0.10 of the image side).
AffineDraws == [s : {FP \div 2, FP}, tx : {0, 2 * FP}, ty : {0}]

\* M = S @ T @ R for a = 0 and zero shear (lines 286-302): S is the identity,
\* R = getRotationMatrix2D(0, centre, s) and T adds the translation
AffineM(img, draw) ==
    LET cx == (img.width * FP) \div 2
        cy == (img.height * FP) \div 2
    IN  [m00 |-> draw.s, m01 |-> 0, m02 |-> (cx - Mul(draw.s, cx)) + draw.tx,
         m10 |-> 0, m11 |-> draw.s, m12 |-> (cy - Mul(draw.s, cy)) + draw.ty]

\* max(abs(sin(radians)), abs(cos(radians))) ** 0.5 for a = 0 (lines 324-325)
Reduction == FP

\* xy.min(1) and xy.max(1) over the four warped corners (lines 319-321)
SetMin(S) == CHOOSE v \in S : \A u \in S : v <= u

SetMax(S) == CHOOSE v \in S : \A u \in S : v >= u

\* the reduced extent around the centre, clipped to the image (lines 326-336)
ReducedBox(img, xmin, xmax, ymin, ymax) ==
    LET x == (xmax + xmin) \div 2
        y == (ymax + ymin) \div 2
        w == Mul(xmax - xmin, Reduction)
        h == Mul(ymax - ymin, Reduction)
    IN  <<Clip(x - w \div 2, 0, img.width * FP), Clip(y - h \div 2, 0, img.height * FP),
          Clip(x + w \div 2, 0, img.width * FP), Clip(y + h \div 2, 0, img.height * FP)>>

\* the warped, reduced and clipped box of the pixel box p = <<x1, y1, x2, y2>>
\* (lines 313-336)
WarpBox(img, p, M) ==
    LET wx(x, y) == Mul(M.m00, x) + Mul(M.m01, y) + M.m02
        wy(x, y) == Mul(M.m10, x) + Mul(M.m11, y) + M.m12
        \* x1y1, x2y2, x1y2, x2y1
        xs == {wx(p[1], p[2]), wx(p[3], p[4]), wx(p[1], p[4]), wx(p[3], p[2])}
        ys == {wy(p[1], p[2]), wy(p[3], p[4]), wy(p[1], p[4]), wy(p[3], p[2])}
    IN  ReducedBox(img, SetMin(xs), SetMax(xs), SetMin(ys), SetMax(ys))

\* a slip: the aspect-ratio test (ar < 10) left out of the filter
KeepBoxNoAspect(p, q) ==
    LET area0 == Mul(p[3] - p[1], p[4] - p[2])
        w == q[3] - q[1]
        h == q[4] - q[2]
        area == Mul(w, h)
    IN  /\ w > 4 * FP
        /\ h > 4 * FP
        /\ IF area0 > 0 THEN 10 * area > area0 ELSE area0 = 0 /\ area > 0

\* i = (w > 4) & (h > 4) & (area / (area0 + 1e-16) > 0.1) & (ar < 10)
\* for the pixel box p before and the box q after the warp (lines 337-341)
KeepBox(p, q) ==
    LET area0 == Mul(p[3] - p[1], p[4] - p[2])
        w == q[3] - q[1]
        h == q[4] - q[2]
        area == Mul(w, h)
    IN  /\ w > 4 * FP
        /\ h > 4 * FP
        /\ IF area0 > 0 THEN 10 * area > area0 ELSE area0 = 0 /\ area > 0
        /\ w < 10 * h /\ h < 10 * w

\* targets = targets[i]; targets[:, 2:6] = xy[i] for one row t whose pixel
\* box p is warped to q (lines 343-344)
KeptRow(t, p, q) ==
    IF KeepBox(p, q) THEN <<<<t[1], t[2], q[1], q[2], q[3], q[4]>>>> ELSE <<>>

WarpRow(img, t, M) ==
    KeptRow(t, <<t[3], t[4], t[5], t[6]>>, WarpBox(img, <<t[3], t[4], t[5], t[6]>>, M))

\* random_affine's targets: the kept rows, their box columns replaced by
\* the warped boxes (lines 307-346)
RECURSIVE RandomAffine(_, _, _)
RandomAffine(img, targets, draw) ==
    IF targets = <<>> THEN <<>>
    ELSE WarpRow(img, Head(targets), AffineM(img, draw))
             \o RandomAffine(img, Tail(targets), draw)

(***************************************************************************)
(* random_affine called on its own: the image shape, the targets (rows     *)
(* <<class, identity, x1, y1, x2, y2>> in pixels) and the random draws are *)
(* the arguments, the returned targets the result.                         *)
(***************************************************************************)
\* the letterboxed image and an image half as wide again
AffImgs == {LetterboxedImg, [height |-> Height, width |-> Width + Width \div 2]}

\* a pixel box from its corners in half pixels
PxBox(x1, y1, x2, y2) ==
    <<(x1 * FP) \div 2, (y1 * FP) \div 2, (x2 * FP) \div 2, (y2 * FP) \div 2>>

\* 16 x 16 px inside the image
PxInside == PxBox(16, 16, 48, 48)

\* exactly 4 px wide
PxNarrow == PxBox(20, 16, 28, 48)

\* 5 px wide: 2.5 px at scale 0.5
PxThin == PxBox(20, 16, 30, 48)

\* exactly 4 px high
PxShort == PxBox(16, 20, 48, 28)

\* 110 x 10 px of which 10 x 10 px lie inside the image
PxMostlyOut == PxBox(0 - 200, 16, 20, 36)

\* 48 x 4.5 px
PxLong == PxBox(0, 20, 96, 29)

\* 8 px wide at the right edge of the letterboxed image
PxEdge == PxBox(48, 16, 64, 48)

PxBoxes == {PxInside, PxNarrow, PxThin, PxShort, PxMostlyOut, PxLong, PxEdge}

AffRows == {<<0, id, b[1], b[2], b[3], b[4]>> : id \in {0, 1}, b \in PxBoxes}

InitAffine ==
    /\ label_files = <<>>
    /\ opt = DefaultOpt
    /\ augment = TRUE
    /\ jd = NewJd /\ ret = NoRet /\ loss = NoLoss /\ out = NoOut /\ coll = NoColl
    /\ aff \in [state : {"args"}, img : AffImgs,
                 targets : SeqsUpTo(AffRows, MaxRows), draw : AffineDraws]

\* imw, targets, M = random_affine(img, targets, ...) (lines 276-346)
RandomAffineCall ==
    /\ aff.state = "args"
    /\ aff' = [state |-> "returned", img |-> aff.img, targets |-> aff.targets,
               draw |-> aff.draw,
               result |-> RandomAffine(aff.img, aff.targets, aff.draw)]
    /\ UNCHANGED <<label_files, opt, augment, jd, ret, loss, out, coll>>

NextAffine == RandomAffineCall

SpecAffine == InitAffine /\ [][NextAffine]_vars

(***************************************************************************)
(* collate_fn(batch): a batch is the sequence of its samples' label arrays *)
(* (images, paths and sizes are passed through).                           *)
(***************************************************************************)
\* the label array of a sample of n objects, its rows told apart by identity
SampleLabels(n) == [j \in 1..n |-> Row(j, BoxCell)]

Batches == SeqsUpTo({SampleLabels(n) : n \in 0..MaxCount}, MaxBatch)

InitCollate ==
    /\ label_files = <<>>
    /\ opt = DefaultOpt
    /\ augment = FALSE
    /\ jd = NewJd /\ ret = NoRet /\ loss = NoLoss /\ out = NoOut /\ aff = NoAff
    /\ coll \in [state : {"args"}, batch : Batches]

\* a row of torch.zeros(batch_size, max_box_len, 6)
ZeroRow == <<0, 0, 0, 0, 0, 0>>

\* a slip: the length of the first sample in place of the maximum
MaxBoxLenFirst(labels) == Len(labels[1])

\* max([l.shape[0] for l in labels]) (line 355)
MaxBoxLen(labels) ==
    CHOOSE n \in {Len(labels[i]) : i \in 1..Len(labels)} :
        \A i \in 1..Len(labels) : Len(labels[i]) <= n

\* filled_labels after the loop of lines 360-364
FilledLabels(labels, max_box_len) ==
    [i \in 1..Len(labels) |->
        [j \in 1..max_box_len |->
            IF j <= Len(labels[i]) THEN labels[i][j] ELSE ZeroRow]]

\* labels_len.unsqueeze(1) (lines 358, 364, 366)
LabelsLen(labels) == [i \in 1..Len(labels) |-> <<Len(labels[i])>>]

\* collate_fn(batch); zip(*batch) of an empty batch cannot be unpacked
\* (line 352)
CollateFn ==
    /\ coll.state = "args"
    /\ coll' = IF coll.batch = <<>>
               THEN [state |-> "raised", error |-> "ValueError", batch |-> coll.batch]
               ELSE [state |-> "returned", batch |-> coll.batch,
                     filled_labels |-> FilledLabels(coll.batch, MaxBoxLen(coll.batch)),
                     labels_len |-> LabelsLen(coll.batch)]
    /\ UNCHANGED <<label_files, opt, augment, jd, ret, loss, out, aff>>

NextCollate == CollateFn

SpecCollate == InitCollate /\ [][NextCollate]_vars

(***************************************************************************)
(* LoadImagesAndLabels.get_data                                            *)
(***************************************************************************)
\* normalised xywh to pixel xyxy of one row of the view `key` (lines 198-208)
ToPixelXyxy(row, key, lb) ==
    LET x == IF key = "flipped" THEN FP - row[3] ELSE row[3]
        y == row[4]
        w == row[5]
        h == row[6]
    IN  <<row[1], row[2],
          Mul(lb.ratio * ImgW, x - w \div 2) + lb.dw,
          Mul(lb.ratio * ImgH, y - h \div 2) + lb.dh,
          Mul(lb.ratio * ImgW, x + w \div 2) + lb.dw,
          Mul(lb.ratio * ImgH, y + h \div 2) + lb.dh>>

\* utils.utils.xyxy2xywh: corners to centre, width and height
Xyxy2Xywh(b) == <<(b[1] + b[3]) \div 2, (b[2] + b[4]) \div 2, b[3] - b[1], b[4] - b[2]>>

\* xyxy2xywh, then the division by width and height (lines 219-223)
ToNormXywh(row) ==
    LET b == Xyxy2Xywh(<<row[3], row[4], row[5], row[6]>>)
    IN  <<row[1], row[2],
          b[1] \div Width, b[2] \div Height, b[3] \div Width, b[4] \div Height>>

\* labels[key][:, 2] = 1 - labels[key][:, 2] (line 230)
FlipLR(row) == <<row[1], row[2], FP - row[3], row[4], row[5], row[6]>>

\* the rows of the label file in pixel xyxy (lines 197-210)
RECURSIVE LoadLabels(_, _, _)
LoadLabels(rows, key, lb) ==
    IF rows = <<>> THEN <<>>
    ELSE <<ToPixelXyxy(Head(rows), key, lb)>> \o LoadLabels(Tail(rows), key, lb)

\* labels back to normalised xywh (lines 216-223)
RECURSIVE NormLabels(_)
NormLabels(rows) ==
    IF rows = <<>> THEN <<>>
    ELSE <<ToNormXywh(Head(rows))>> \o NormLabels(Tail(rows))

\* the left-right flip of supervised mode (lines 225-230)
RECURSIVE FlipLabels(_)
FlipLabels(rows) ==
    IF rows = <<>> THEN <<>>
    ELSE <<FlipLR(Head(rows))>> \o FlipLabels(Tail(rows))

\* the label list of one view (the body of the loop of lines 172-237);
\* draw is the view's random_affine draw and lr the coin of line 227
ViewLabels(file, key, unsup, aug, draw, lr) ==
    LET loaded == IF file.exists
                  THEN LoadLabels(file.rows, key, Letterbox(ImgH, ImgW)) ELSE <<>>
        normed == NormLabels(IF aug THEN RandomAffine(LetterboxedImg, loaded, draw)
                                    ELSE loaded)
    IN  IF ~unsup /\ aug /\ lr THEN FlipLabels(normed) ELSE normed

\* a label list or None
Some(rows) == [none |-> FALSE, rows |-> rows]

None == [none |-> TRUE, rows |-> <<>>]

\* get_data(img_path, label_path, unsup): the labels dictionary
GetData(file, unsup, aug, draws) ==
    [orig |-> Some(ViewLabels(file, "orig", unsup, aug, draws.orig, draws.lr)),
     flipped |-> IF unsup
                 THEN Some(ViewLabels(file, "flipped", unsup, aug, draws.flipped, draws.lr))
                 ELSE None]

(***************************************************************************)
(* JointDataset.__getitem__                                                *)
(***************************************************************************)
\* a slip: files_index > c in place of files_index >= c
RECURSIVE FindDatasetStrict(_, _, _, _)
FindDatasetStrict(cds, files_index, i, found) ==
    IF i > Len(cds) THEN found
    ELSE IF files_index > cds[i]
         THEN FindDatasetStrict(cds, files_index, i + 1, [ds |-> i, start_index |-> cds[i]])
         ELSE FindDatasetStrict(cds, files_index, i + 1, found)

\* the scan for the dataset of a flat index (lines 449-454); ds = 0 is None
RECURSIVE FindDataset(_, _, _, _)
FindDataset(cds, files_index, i, found) ==
    IF i > Len(cds) THEN found
    ELSE IF files_index >= cds[i]
         THEN FindDataset(cds, files_index, i + 1, [ds |-> i, start_index |-> cds[i]])
         ELSE FindDataset(cds, files_index, i + 1, found)

\* a slip: the offset added to every row, the unknown identity -1 included
OffsetIdsAll(labels, start) ==
    [i \in 1..Len(labels) |-> [labels[i] EXCEPT ![2] = labels[i][2] + start]]

\* labels[i, 1] += self.tid_start_index[ds] if labels[i, 1] > -1 (lines 466-468)
OffsetIds(labels, start) ==
    [i \in 1..Len(labels) |->
        IF labels[i][2] > 0 - 1
        THEN [labels[i] EXCEPT ![2] = labels[i][2] + start]
        ELSE labels[i]]

\* img.shape[2] // self.opt.down_ratio and img.shape[1] // ... (lines 470-471)
output_w == Width \div DownRatio

output_h == Height \div DownRatio

\* bbox of one label on the output grid, its centre clipped (lines 505-510)
GridBox(label) ==
    [x |-> Clip(label[3] * output_w, 0, (output_w - 1) * FP),
     y |-> Clip(label[4] * output_h, 0, (output_h - 1) * FP),
     w |-> label[5] * output_w,
     h |-> label[6] * output_h]

\* ct.astype(np.int32)
CtInt(b) == <<b.x \div FP, b.y \div FP>>

\* a slip: the row and the column of the centre exchanged
FlatIndexSwapped(ct_int) == ct_int[1] * output_w + ct_int[2]

\* ct_int[1] * output_w + ct_int[0] (lines 520, 552)
FlatIndex(ct_int) == ct_int[2] * output_w + ct_int[1]

NewTargets(max_objs) ==
    [wh |-> Zeros2(max_objs), reg |-> Zeros2(max_objs), ind |-> Zeros(max_objs),
     reg_mask |-> Zeros(max_objs), ids |-> Zeros(max_objs), raised |-> FALSE]

\* what the body of the loop writes for object k (lines 519-523)
EncodeObject(t, k, label, b) ==
    [t EXCEPT !.wh[k + 1] = <<b.w, b.h>>,
              !.ind[k + 1] = FlatIndex(CtInt(b)),
              !.reg[k + 1] = <<b.x - CtInt(b)[1] * FP, b.y - CtInt(b)[2] * FP>>,
              !.reg_mask[k + 1] = 1,
              !.ids[k + 1] = label[2]]

\* for k in range(num_objs) (lines 501-530); wh[k] = ... raises IndexError
\* when k is past the arrays of max_objs entries
RECURSIVE BuildTargets(_, _, _, _, _)
BuildTargets(labels, k, num_objs, max_objs, t) ==
    IF k >= num_objs \/ t.raised THEN t
    ELSE LET b == GridBox(labels[k + 1])
         IN  IF b.h > 0 /\ b.w > 0
             THEN IF k >= max_objs
                  THEN [t EXCEPT !.raised = TRUE]
                  ELSE BuildTargets(labels, k + 1, num_objs, max_objs,
                                    EncodeObject(t, k, labels[k + 1], b))
             ELSE BuildTargets(labels, k + 1, num_objs, max_objs, t)

NewFlipped(max_objs) ==
    [flipped_ind |-> Zeros(max_objs), read |-> {}, raised |-> FALSE]

\* the loop over the flipped labels (lines 539-557); `read` collects the
\* positions k at which flipped_labels[k] is evaluated
RECURSIVE BuildFlipped(_, _, _, _, _)
BuildFlipped(flipped_labels, k, num_objs, max_objs, f) ==
    IF k >= num_objs \/ f.raised THEN f
    ELSE IF k >= Len(flipped_labels)
         THEN [f EXCEPT !.read = @ \cup {k}, !.raised = TRUE]
         ELSE LET b == GridBox(flipped_labels[k + 1])
                  g == [f EXCEPT !.read = @ \cup {k}]
              IN  IF b.h > 0 /\ b.w > 0
                  THEN IF k >= max_objs
                       THEN [g EXCEPT !.raised = TRUE]
                       ELSE BuildFlipped(flipped_labels, k + 1, num_objs, max_objs,
                                 [g EXCEPT !.flipped_ind[k + 1] = FlatIndex(CtInt(b))])
                  ELSE BuildFlipped(flipped_labels, k + 1, num_objs, max_objs, g)

RetKeys == {"img", "hm", "reg_mask", "ind", "wh", "reg", "ids", "num_objs"}

\* the fields of ret that a fetch failing before the encoder leaves empty
Blank ==
    [printed |-> <<>>, num_objs |-> 0, keys |-> {},
     wh |-> <<>>, reg |-> <<>>, ind |-> <<>>, reg_mask |-> <<>>,
     ids |-> <<>>, flipped_ind |-> <<>>, read |-> {}]

\* print(labels.shape[0], flipped_labels.shape[0]) (lines 474-475) and the
\* arrays of lines 482-494 as the two loops leave them
Arrays(base, t, f) ==
    [printed |-> IF Len(base.labels) # Len(base.flipped_labels.rows)
                 THEN <<<<Len(base.labels), Len(base.flipped_labels.rows)>>>> ELSE <<>>,
     num_objs |-> Len(base.labels),
     wh |-> t.wh, reg |-> t.reg, ind |-> t.ind,
     reg_mask |-> t.reg_mask, ids |-> t.ids,
     flipped_ind |-> f.flipped_ind, read |-> f.read]

\* after the loop over the flipped labels (lines 539-569)
AfterFlipped(base, t, f) ==
    IF f.raised
    THEN [status |-> "IndexError",
          line |-> IF f.read \subseteq 0..(Len(base.flipped_labels.rows) - 1)
                   THEN 552 ELSE 540,
          keys |-> {}] @@ base @@ Arrays(base, t, f)
    ELSE [status |-> "ok", line |-> 569,
          keys |-> RetKeys \cup {"flipped_img", "flipped_ind"}] @@ base @@ Arrays(base, t, f)

\* after the loop over the labels (lines 501-537)
AfterTargets(base, t) ==
    IF t.raised
    THEN [status |-> "IndexError", line |-> 519, keys |-> {}]
             @@ base @@ Arrays(base, t, NewFlipped(jd.max_objs))
    ELSE AfterFlipped(base, t,
             BuildFlipped(base.flipped_labels.rows, 0, Len(base.labels), jd.max_objs,
                          NewFlipped(jd.max_objs)))

\* from the comparison of the two label lists on (lines 474-537)
AfterLabels(base) ==
    IF base.flipped_labels.none
    THEN \* flipped_labels.shape of None (line 474)
         [status |-> "AttributeError", line |-> 474] @@ base @@ Blank
    ELSE AfterTargets(base,
             BuildTargets(base.labels, 0, Len(base.labels), jd.max_objs,
                          NewTargets(jd.max_objs)))

\* get_data's labels with the identity offset applied (lines 459-468)
AfterGetData(files_index, ds, pos, lbl_dict) ==
    AfterLabels([files_index |-> files_index, ds |-> ds, pos |-> pos,
                 loaded |-> lbl_dict.orig.rows,
                 labels |-> OffsetIds(lbl_dict.orig.rows, jd.tid_start_index[ds]),
                 flipped_labels |-> lbl_dict.flipped])

\* from the dataset ds and the position pos in it on (lines 456-569)
AfterFind(files_index, ds, pos, draws) ==
    IF ds = 0 \/ pos >= Len(label_files[ds])
    THEN \* self.img_files[ds][files_index - start_index] (line 457)
         [status |-> "IndexError", line |-> 457,
          files_index |-> files_index, ds |-> ds, pos |-> pos,
          loaded |-> <<>>, labels |-> <<>>, flipped_labels |-> None] @@ Blank
    ELSE AfterGetData(files_index, ds, pos,
             GetData(label_files[ds][pos + 1], jd.unsup, jd.augment, draws))

AtDataset(files_index, found, draws) ==
    AfterFind(files_index, found.ds, files_index - found.start_index, draws)

\* __getitem__(files_index) with the random draws `draws` of get_data
GetItemResult(files_index, draws) ==
    AtDataset(files_index,
              FindDataset(jd.cds, files_index, 1, [ds |-> 0, start_index |-> 0]), draws)

\* the random draws one get_data call makes: none without augment, one
\* random_affine draw per view with it, and the coin of line 227 in
\* supervised mode only
NoDraw == [s |-> FP, tx |-> 0, ty |-> 0]

GetDataDraws(unsup, aug) ==
    [orig : IF aug THEN AffineDraws ELSE {NoDraw},
     flipped : IF aug /\ unsup THEN AffineDraws ELSE {NoDraw},
     lr : IF aug /\ ~unsup THEN BOOLEAN ELSE {FALSE}]

\* A fetch reads the JointDataset object and the files and writes neither
\* (lines 447-569), so fetches do not influence one another: a behaviour
\* makes one.
GetItem ==
    /\ jd.state = "ok"
    /\ ret = NoRet
    /\ \E files_index \in 0..(jd.nF - 1) :
       \E draws \in GetDataDraws(jd.unsup, jd.augment) :
          ret' = GetItemResult(files_index, draws)
    /\ UNCHANGED <<label_files, opt, augment, jd, loss, out, aff, coll>>

(***************************************************************************)
(* MotTrainer._get_losses and MotLoss.__init__                             *)
(***************************************************************************)
\* loss_states (lines 139-150)
LossStates(o) ==
    <<"loss", "hm", "wh">> \o (IF o.reg_offset THEN <<"off">> ELSE <<>>)
        \o (IF o.unsup THEN <<o.unsup_loss>> ELSE <<"id">>)

\* self.crit (line 28)
Crit(o) == IF o.mse_loss THEN "MSELoss" ELSE "FocalLoss"

\* self.crit_reg (lines 31-32)
CritReg(o) ==
    IF o.reg_loss = "l1" THEN "RegL1Loss"
    ELSE IF o.reg_loss = "sl1" THEN "RegLoss" ELSE "None"

\* self.crit_wh (lines 35-37)
CritWh(o) ==
    IF o.dense_wh THEN "L1Loss"
    ELSE IF o.norm_wh THEN "NormRegL1Loss"
    ELSE IF o.cat_spec_wh THEN "RegWeightedL1Loss" ELSE CritReg(o)

\* self.SelfSupLoss (lines 46-48)
SelfSupLoss(o) ==
    IF o.unsup_loss = "nt_xent" THEN "NTXentLoss"
    ELSE IF o.unsup_loss = "triplet_all" THEN "TripletLoss(batch_all)"
    ELSE IF o.unsup_loss = "triplet_hard" THEN "TripletLoss(batch_hard)" ELSE "None"

\* loss = MotLoss(opt, loss_states) (line 152, lines 20-56)
MotLossInit ==
    /\ loss = NoLoss
    /\ loss' =
          IF opt.unsup /\ SelfSupLoss(opt) = "None"
          THEN [state |-> "raised", error |-> "ValueError"]
          ELSE [state |-> "ok",
                loss_states |-> LossStates(opt),
                crit |-> Crit(opt),
                crit_reg |-> CritReg(opt),
                crit_wh |-> CritWh(opt),
                IDLoss |-> "CrossEntropyLoss",
                SelfSupLoss |-> SelfSupLoss(opt)]
    /\ UNCHANGED <<label_files, opt, augment, jd, ret, out, aff, coll>>

(***************************************************************************)
(* MotLoss.forward.  A loss value v is the fixed-point integer v * LossFP; *)
(* the learned parameters are s = -k ln 2, so that exp(-s) = 2^k, and a    *)
(* total is q + l ln 2, kept as the record [q, l].                         *)
(***************************************************************************)
RECURSIVE Factorial(_)
Factorial(n) == IF n <= 1 THEN 1 ELSE n * Factorial(n - 1)

LossFP == 2 * Factorial(MaxStacks)

RECURSIVE Pow2(_)
Pow2(k) == IF k = 0 THEN 1 ELSE 2 * Pow2(k - 1)

\* torch.exp(-s) for s = -k ln 2
ExpNeg(k) == Pow2(k)

\* the values one criterion call can return at each stage
LossVals == {1, 2}

\* the keys of a batch of JointDataset samples (lines 532, 559-562)
BatchKeys(o) ==
    RetKeys \cup (IF o.unsup THEN {"flipped_img", "flipped_ind"} ELSE {})

Range(seq) == {seq[i] : i \in 1..Len(seq)}

\* loss_results = {loss: 0 for loss in self.loss_states} (line 60)
NewForward ==
    [loss_results |-> [t \in Range(loss.loss_states) |-> 0],
     calls |-> <<>>, status |-> "ok", line |-> 0]

Call(crit, head, stage) == [crit |-> crit, head |-> head, stage |-> stage]

\* the heatmap loss of stage s (line 73)
StageHm(a, s, v) ==
    [a EXCEPT !.loss_results["hm"] = @ + (v * LossFP) \div opt.num_stacks,
              !.calls = Append(@, Call(loss.crit, "hm", s))]

\* the size loss of stage s (lines 76-85)
StageWh(a, s, v) ==
    IF a.status # "ok" \/ ~(opt.wh_weight > 0) THEN a
    ELSE IF opt.dense_wh
    THEN IF "dense_wh_mask" \notin BatchKeys(opt)
         THEN [a EXCEPT !.status = "KeyError", !.line = 78]
         ELSE [a EXCEPT !.loss_results["wh"] = @ + (v * LossFP) \div opt.num_stacks,
                        !.calls = Append(@, Call(loss.crit_wh, "wh", s))]
    ELSE IF loss.crit_reg = "None"
    THEN [a EXCEPT !.status = "TypeError", !.line = 83]
    ELSE [a EXCEPT !.loss_results["wh"] = @ + (v * LossFP) \div opt.num_stacks,
                   !.calls = Append(@, Call(loss.crit_reg, "wh", s))]

\* the offset loss of stage s (lines 88-90)
StageOff(a, s, v) ==
    IF a.status # "ok" \/ ~(opt.reg_offset /\ opt.off_weight > 0) THEN a
    ELSE IF loss.crit_reg = "None"
    THEN [a EXCEPT !.status = "TypeError", !.line = 89]
    ELSE [a EXCEPT !.loss_results["off"] = @ + (v * LossFP) \div opt.num_stacks,
                   !.calls = Append(@, Call(loss.crit_reg, "reg", s))]

\* the supervised identity loss of stage s (lines 97-100)
StageId(a, s, v) ==
    IF a.status # "ok" \/ ~(opt.id_weight > 0 /\ ~opt.unsup) THEN a
    ELSE [a EXCEPT !.loss_results["id"] = @ + v * LossFP,
                   !.calls = Append(@, Call(loss.IDLoss, "id", s))]

\* the self-supervised loss of stage s (lines 103-112)
StageSelfSup(a, s, v, flipped) ==
    IF a.status # "ok" \/ ~(opt.unsup /\ flipped) THEN a
    ELSE [a EXCEPT !.loss_results[opt.unsup_loss] = v * LossFP,
                   !.calls = Append(@, Call(loss.SelfSupLoss, "id", s))]

\* for s in range(opt.num_stacks) (lines 66-112)
RECURSIVE Stages(_, _, _, _)
Stages(a, s, stage_loss, flipped) ==
    IF s > opt.num_stacks \/ a.status # "ok" THEN a
    ELSE LET v == stage_loss[s]
         IN  Stages(StageSelfSup(StageId(StageOff(StageWh(StageHm(a, s, v), s, v), s, v),
                                         s, v), s, v, flipped),
                    s + 1, stage_loss, flipped)

\* opt.hm_weight * hm + opt.wh_weight * wh + opt.off_weight * off (lines 115-117)
DetLoss(lr) ==
    opt.hm_weight * lr["hm"] + opt.wh_weight * lr["wh"] + opt.off_weight * lr["off"]

\* id_loss (lines 119-120)
IdLoss(lr, s_id) ==
    IF ~opt.unsup THEN ExpNeg(s_id) * lr["id"] ELSE ExpNeg(s_id) * lr[opt.unsup_loss]

\* total_loss (lines 123-127)
TotalLoss(lr, s_det, s_id) ==
    [q |-> (ExpNeg(s_det) * DetLoss(lr) + ExpNeg(s_id) * IdLoss(lr, s_id)) \div 2,
     l |-> (((0 - s_det) + (0 - s_id)) * LossFP) \div 2]

\* forward(output_dict, batch): stage_loss[s] is what a criterion returns
\* on stage s, flipped says whether output_dict holds 'flipped', and s_det
\* and s_id are the exponents k of the learned parameters
ForwardResult(stage_loss, flipped, s_det, s_id) ==
    LET a == Stages(NewForward, 1, stage_loss, flipped)
        inputs == [stage_loss |-> stage_loss, flipped |-> flipped,
                   s_det |-> s_det, s_id |-> s_id]
        none == [q |-> 0, l |-> 0]
    IN  IF a.status # "ok"
        THEN [status |-> a.status, line |-> a.line, loss_results |-> a.loss_results,
              calls |-> a.calls, total |-> none] @@ inputs
        ELSE IF "off" \notin DOMAIN a.loss_results
        THEN \* loss_results['off'] (line 117)
             [status |-> "KeyError", line |-> 117, loss_results |-> a.loss_results,
              calls |-> a.calls, total |-> none] @@ inputs
        ELSE [status |-> "ok", line |-> 130,
              loss_results |-> [a.loss_results EXCEPT
                                   !["loss"] = TotalLoss(a.loss_results, s_det, s_id)],
              calls |-> a.calls,
              total |-> TotalLoss(a.loss_results, s_det, s_id)] @@ inputs

\* A forward pass reads the MotLoss object and writes nothing of it (the
\* optimizer, outside these files, moves s_det and s_id between passes), so
\* a behaviour makes one.
Forward ==
    /\ loss.state = "ok"
    /\ out = NoOut
    /\ \E stage_loss \in [1..opt.num_stacks -> LossVals] :
       \E flipped \in (IF opt.unsup THEN BOOLEAN ELSE {FALSE}) :
       \E s_det \in 0..MaxS, s_id \in 0..MaxS :
          out' = ForwardResult(stage_loss, flipped, s_det, s_id)
    /\ UNCHANGED <<label_files, opt, augment, jd, ret, loss, aff, coll>>

NextLoss == MotLossInit \/ Forward

SpecLoss == InitLoss /\ [][NextLoss]_vars

Next == JointDatasetInit \/ GetItem

SpecJoint == InitJoint /\ [][Next]_vars

SpecIndex == InitIndex /\ [][Next]_vars

SpecEncode == InitEncode /\ [][Next]_vars

(***************************************************************************)
(* Claims                                                                  *)
(***************************************************************************)
NumDatasets == Len(label_files)

\* the identities written in the label files of dataset d
ObservedIds(d) ==
    UNION {{label_files[d][i].rows[j][2] : j \in 1..Len(label_files[d][i].rows)} :
              i \in 1..Len(label_files[d])}

\* maximum identity observed in the label files of dataset d, plus 1, or 0
LocalCount(d) ==
    IF ObservedIds(d) = {} THEN 0
    ELSE (CHOOSE v \in ObservedIds(d) : \A u \in ObservedIds(d) : u <= v) + 1

\* C1: after construction the identity offset of the first dataset is 0 and
\* the offset of every next dataset is the previous offset plus the previous
\* dataset's local identity count (maximum identity observed + 1, or 0), so
\* the blocks [start, start + count) are contiguous, disjoint and in
\* registration order.
C1_OffsetsArePrefixSums ==
    jd.state = "ok" =>
        /\ Len(jd.tid_start_index) = NumDatasets
        /\ jd.tid_start_index[1] = 0
        /\ \A d \in 1..(NumDatasets - 1) :
              jd.tid_start_index[d + 1] = jd.tid_start_index[d] + LocalCount(d)
        /\ \A d, e \in 1..NumDatasets :
              d < e => jd.tid_start_index[d] + LocalCount(d) <= jd.tid_start_index[e]

C1_Witness ==
    /\ jd.state = "ok"
    /\ NumDatasets = 2
    /\ LocalCount(1) = MaxId + 1
    /\ LocalCount(2) > 0
    /\ jd.tid_start_index[2] = MaxId + 1

\* the cumulative start of dataset d: the samples of the datasets before it
RECURSIVE CumStart(_)
CumStart(d) == IF d = 1 THEN 0 ELSE CumStart(d - 1) + Len(label_files[d - 1])

\* the (dataset, position) pair __getitem__ resolves the flat index i to
Resolved(i) ==
    LET found == FindDataset(jd.cds, i, 1, [ds |-> 0, start_index |-> 0])
    IN  <<found.ds, i - found.start_index>>

\* C2: every flat index i in [0, n_1 + ... + n_m) resolves to the last
\* dataset d whose cumulative start is <= i and to position i - start(d),
\* which lies in [0, n_d); a dataset is always found; distinct flat indices
\* resolve to distinct pairs; with counts 3 and 5, indices 0..2 go to
\* dataset 1 positions 0..2 and indices 3..7 to dataset 2 positions 0..4.
C2_FlatIndexResolution ==
    /\ ret # NoRet =>
          /\ ret.ds \in 1..NumDatasets
          /\ CumStart(ret.ds) <= ret.files_index
          /\ \A e \in (ret.ds + 1)..NumDatasets : CumStart(e) > ret.files_index
          /\ ret.pos = ret.files_index - CumStart(ret.ds)
          /\ ret.pos >= 0 /\ ret.pos < Len(label_files[ret.ds])
          /\ ret.line # 457
          /\ (NumDatasets = 2 /\ Len(label_files[1]) = 3 /\ Len(label_files[2]) = 5) =>
                <<ret.ds, ret.pos>> = IF ret.files_index < 3
                                      THEN <<1, ret.files_index>>
                                      ELSE <<2, ret.files_index - 3>>
    /\ jd.state = "ok" =>
          \A i, j \in 0..(jd.nF - 1) : i # j => Resolved(i) # Resolved(j)

C2_Witness ==
    /\ NumDatasets = 2 /\ Len(label_files[1]) = 3 /\ Len(label_files[2]) = 5
    /\ ret # NoRet
    /\ ret.files_index = 7
    /\ ret.ds = 2 /\ ret.pos = 4

\* the global identity the fetch gives the local identity id of dataset d
GlobalId(d, id) == OffsetIds(<<Row(id, BoxCell)>>, jd.tid_start_index[d])[1][2]

\* C3: on every fetch an annotation of identity -1 keeps -1 and one of
\* identity >= 0 from dataset d gets identity + tid_start_index[d]; no two
\* annotations of different datasets get the same global identity, and
\* every global identity lies in [0, nID - 1).
C3_GlobalIdentities ==
    /\ ret # NoRet =>
          /\ Len(ret.labels) = Len(ret.loaded)
          /\ \A k \in 1..Len(ret.loaded) :
                /\ ret.loaded[k][2] = 0 - 1 => ret.labels[k][2] = 0 - 1
                /\ ret.loaded[k][2] >= 0 =>
                      /\ ret.labels[k][2] = ret.loaded[k][2] + jd.tid_start_index[ret.ds]
                      /\ ret.labels[k][2] >= 0
                      /\ ret.labels[k][2] < jd.nID - 1
    /\ jd.state = "ok" =>
          \A d, e \in 1..NumDatasets :
             \A a \in ObservedIds(d), b \in ObservedIds(e) :
                (d # e /\ a >= 0 /\ b >= 0) =>
                    /\ GlobalId(d, a) # GlobalId(e, b)
                    /\ GlobalId(d, a) >= 0 /\ GlobalId(d, a) < jd.nID - 1

C3_Witness ==
    /\ ret # NoRet
    /\ ret.ds = 2
    /\ jd.tid_start_index[2] > 0
    /\ Len(ret.loaded) = 2
    /\ ret.loaded[1][2] = MaxId /\ ret.labels[1][2] = MaxId + jd.tid_start_index[2]
    /\ ret.loaded[2][2] = 0 - 1 /\ ret.labels[2][2] = 0 - 1

\* the rows get_data returned for the fetched sample number more than opt.K
OverCapacity == ret # NoRet /\ Len(ret.loaded) > jd.max_objs

\* the annotation at position k of the fetched labels has a box of positive
\* width and height on the output grid
Encodable(k) == ret.labels[k][5] * output_w > 0 /\ ret.labels[k][6] * output_h > 0

\* C5: with more annotations than the capacity K the fetch completes
\* without raising and encodes exactly the first K annotations in label
\* order (stated for self-supervised mode, where the fetch reaches the
\* encoder).
C5_OverCapacityTruncates ==
    (OverCapacity /\ jd.unsup) =>
        /\ ret.status = "ok"
        /\ \A k \in 1..jd.max_objs :
              Encodable(k) => ret.reg_mask[k] = 1 /\ ret.ids[k] = ret.labels[k][2]

\* C6: in self-supervised mode, when the two label lists differ in length,
\* the fetch surfaces the mismatch and reads the flipped list at no
\* position >= its length.
C6_MismatchSurfacedNoOutOfBoundsRead ==
    (ret # NoRet /\ jd.unsup /\ Len(ret.labels) # Len(ret.flipped_labels.rows)) =>
        /\ ret.printed # <<>>
        /\ \A k \in ret.read : k < Len(ret.flipped_labels.rows)

\* C7: in self-supervised mode, for every outcome of the random draws, the
\* flipped view's label list has as many rows as the original view's and
\* row k of both carries the same class and identity.
C7_ViewsCorrespond ==
    (ret # NoRet /\ jd.unsup) =>
        /\ Len(ret.flipped_labels.rows) = Len(ret.loaded)
        /\ \A k \in 1..Len(ret.loaded) :
              /\ ret.flipped_labels.rows[k][1] = ret.loaded[k][1]
              /\ ret.flipped_labels.rows[k][2] = ret.loaded[k][2]

SomeFileMissing ==
    \E d \in 1..NumDatasets : \E i \in 1..Len(label_files[d]) : ~label_files[d][i].exists

\* C8: a sample whose label file does not exist has zero objects: neither
\* the construction nor the fetch of that sample raises, and the fetched
\* sample's validity mask is all zero.
C8_MissingLabelFileIsNoError ==
    /\ SomeFileMissing => jd.state # "raised"
    /\ (ret # NoRet /\ ~label_files[ret.ds][ret.pos + 1].exists /\ jd.unsup) =>
          /\ ret.status = "ok"
          /\ \A k \in 1..Len(ret.reg_mask) : ret.reg_mask[k] = 0

\* the centre of annotation k on the output grid, clipped into
\* [0, output_w - 1] x [0, output_h - 1]
ClippedCentre(k) ==
    LET gx == ret.labels[k][3] * output_w
        gy == ret.labels[k][4] * output_h
    IN  <<IF gx < 0 THEN 0 ELSE IF gx > (output_w - 1) * FP THEN (output_w - 1) * FP ELSE gx,
          IF gy < 0 THEN 0 ELSE IF gy > (output_h - 1) * FP THEN (output_h - 1) * FP ELSE gy>>

\* the integer part of the non-negative fixed-point real v
IntPart(v) == CHOOSE n \in 0..(output_w + output_h) : n * FP <= v /\ v < (n + 1) * FP

\* the fetch reached the encoder
Encoded == ret # NoRet /\ ret.line \in {519, 540, 552, 569}

\* C10: for every annotation k within capacity whose grid width and height
\* are > 0 the encoder sets reg_mask[k] = 1, wh[k] = (grid width, grid
\* height), ind[k] = int_y * output_w + int_x of the clipped centre, so
\* 0 <= ind[k] < output_h * output_w, reg[k] = centre - integer centre and
\* ids[k] = the annotation's global identity or -1; an object centred
\* exactly on cell (5, 5) gets ind = 5 * output_w + 5 and reg = (0, 0).
C10_EncoderRecords ==
    Encoded =>
        \A k \in 1..Min(jd.max_objs, ret.num_objs) :
            Encodable(k) =>
                LET c == ClippedCentre(k)
                    int_x == IntPart(c[1])
                    int_y == IntPart(c[2])
                IN  /\ ret.reg_mask[k] = 1
                    /\ ret.wh[k] = <<ret.labels[k][5] * output_w, ret.labels[k][6] * output_h>>
                    /\ ret.ind[k] = int_y * output_w + int_x
                    /\ ret.ind[k] >= 0 /\ ret.ind[k] < output_h * output_w
                    /\ ret.reg[k] = <<c[1] - int_x * FP, c[2] - int_y * FP>>
                    /\ ret.ids[k] = ret.labels[k][2]
                    /\ c = <<5 * FP, 5 * FP>> =>
                          ret.ind[k] = 5 * output_w + 5 /\ ret.reg[k] = <<0, 0>>

C10_Witness ==
    /\ Encoded /\ ret.status = "ok"
    /\ ret.num_objs = 2 /\ jd.max_objs = 2
    /\ Encodable(1) /\ ClippedCentre(1) = <<5 * FP, 5 * FP>>
    /\ ret.ind[1] = 5 * output_w + 5 /\ ret.reg[1] = <<0, 0>> /\ ret.reg_mask[1] = 1
    /\ Encodable(2) /\ ret.reg[2] # <<0, 0>> /\ ret.reg_mask[2] = 1
    /\ ret.ids[2] = 0 - 1

\* C4: for every value of s_det and s_id the forward pass returns
\* total = 0.5 * (exp(-s_det) * det_loss + exp(-s_id) * id_loss + s_det + s_id)
\* with det_loss = hm_weight * hm + wh_weight * wh + off_weight * off and
\* id_loss the identity (supervised) or self-supervised loss of the
\* diagnostics: each factor exp(-s) is applied exactly once.
C4_UncertaintyWeightedTotal ==
    out.status = "ok" =>
        LET lr == out.loss_results
            det_loss == opt.hm_weight * lr["hm"] + opt.wh_weight * lr["wh"]
                            + opt.off_weight * lr["off"]
            id_loss == IF opt.unsup THEN lr[opt.unsup_loss] ELSE lr["id"]
        IN  /\ 2 * out.total.q = Pow2(out.s_det) * det_loss + Pow2(out.s_id) * id_loss
            /\ 2 * out.total.l = (0 - out.s_det - out.s_id) * LossFP

\* the forward pass calls self.crit_reg under this configuration
NeedsCritReg ==
    \/ opt.wh_weight > 0 /\ ~opt.dense_wh
    \/ opt.reg_offset /\ opt.off_weight > 0

\* C9: constructing MotLoss with an unsupported self-supervised loss name
\* or an unsupported size/regression-loss selection raises during
\* construction: no MotLoss object with a required criterion unresolved
\* (None) is returned, and no forward pass fails on a missing criterion.
C9_UnsupportedSelectionRaisesAtConstruction ==
    /\ loss.state = "ok" =>
          /\ opt.unsup => loss.SelfSupLoss # "None"
          /\ NeedsCritReg => loss.crit_reg # "None"
          /\ (opt.wh_weight > 0 /\ opt.dense_wh) => loss.crit_wh # "None"
    /\ out.status # "TypeError"

\* the warped, reduced and clipped box of input row k of the call
AffWarped(k) ==
    WarpBox(aff.img, <<aff.targets[k][3], aff.targets[k][4], aff.targets[k][5],
                       aff.targets[k][6]>>, AffineM(aff.img, aff.draw))

\* row k passes the four conditions of the filter
AffPasses(k) ==
    LET q == AffWarped(k)
        w == q[3] - q[1]
        h == q[4] - q[2]
        w0 == aff.targets[k][5] - aff.targets[k][3]
        h0 == aff.targets[k][6] - aff.targets[k][4]
    IN  /\ w > 4 * FP
        /\ h > 4 * FP
        /\ 10 * Mul(w, h) > Mul(w0, h0)
        /\ w < 10 * h
        /\ h < 10 * w

AffKept == {k \in 1..Len(aff.targets) : AffPasses(k)}

\* the input row returned at position j
AffSource(j) == CHOOSE k \in AffKept : Cardinality({i \in AffKept : i < k}) = j - 1

AffIdentity == aff.draw = [s |-> FP, tx |-> 0, ty |-> 0]

AffInside(k) ==
    /\ aff.targets[k][3] >= 0 /\ aff.targets[k][5] <= aff.img.width * FP
    /\ aff.targets[k][4] >= 0 /\ aff.targets[k][6] <= aff.img.height * FP

\* C11: random_affine returns exactly the input rows whose warped, reduced
\* and clipped box is more than 4 px wide and high, has more than 0.1 of the
\* original area and an aspect ratio below 10 in both directions, in their
\* original order, class and identity unchanged and the box columns
\* replaced by the warped box; under the identity transform a returned box
\* that lay inside the image keeps its coordinates.
C11_RandomAffineFilter ==
    aff.state = "returned" =>
        /\ Len(aff.result) = Cardinality(AffKept)
        /\ \A j \in 1..Len(aff.result) :
              LET k == AffSource(j)
                  q == AffWarped(k)
              IN  /\ aff.result[j] = <<aff.targets[k][1], aff.targets[k][2],
                                       q[1], q[2], q[3], q[4]>>
                  /\ (AffIdentity /\ AffInside(k)) => aff.result[j] = aff.targets[k]

C11_Witness ==
    /\ aff.state = "returned"
    /\ AffIdentity
    /\ aff.img.width > Width
    /\ aff.targets = <<<<0, 0, PxLong[1], PxLong[2], PxLong[3], PxLong[4]>>,
                       <<0, 1, PxInside[1], PxInside[2], PxInside[3], PxInside[4]>>>>
    /\ aff.result = <<aff.targets[2]>>

\* the object count of sample i of the collated batch
CollCount(i) == Len(coll.batch[i])

CollMax == CHOOSE n \in 0..MaxCount : (\A i \in 1..Len(coll.batch) : CollCount(i) <= n)
                                       /\ (\E i \in 1..Len(coll.batch) : CollCount(i) = n)

\* C12: collate_fn returns a label tensor whose second dimension is the
\* largest object count of the batch; rows [0, c_i) of sample i are that
\* sample's labels, rows [c_i, max) are zero and the length of sample i is
\* c_i; counts [0, 2, 5] give second dimension 5, sample 0 all zero and
\* rows [2, 5) of sample 1 zero.
C12_CollatePadding ==
    coll.state = "returned" =>
        /\ Len(coll.filled_labels) = Len(coll.batch)
        /\ Len(coll.labels_len) = Len(coll.batch)
        /\ \A i \in 1..Len(coll.batch) :
              /\ Len(coll.filled_labels[i]) = CollMax
              /\ \A j \in 1..CollCount(i) : coll.filled_labels[i][j] = coll.batch[i][j]
              /\ \A j \in (CollCount(i) + 1)..CollMax :
                    coll.filled_labels[i][j] = <<0, 0, 0, 0, 0, 0>>
              /\ coll.labels_len[i] = <<CollCount(i)>>

C12_Witness ==
    /\ coll.state = "returned"
    /\ Len(coll.batch) = 3
    /\ CollCount(1) = 0 /\ CollCount(2) = 2 /\ CollCount(3) = 5
    /\ Len(coll.filled_labels[1]) = 5
    /\ \A j \in 1..5 : coll.filled_labels[1][j] = <<0, 0, 0, 0, 0, 0>>
    /\ coll.filled_labels[2][2] = coll.batch[2][2]
    /\ \A j \in 3..5 : coll.filled_labels[2][j] = <<0, 0, 0, 0, 0, 0>>
    /\ coll.filled_labels[3][5] = coll.batch[3][5]
    /\ coll.labels_len = <<<<0>>, <<2>>, <<5>>>>

\* the sum of the per-stage values of stages 1..s of the forward pass
RECURSIVE StageTotal(_)
StageTotal(s) == IF s = 0 THEN 0 ELSE out.stage_loss[s] + StageTotal(s - 1)

\* C13: every per-task loss the forward pass accumulates (heatmap, size,
\* offset, supervised identity, self-supervised embedding) is the sum over
\* the S stages of the per-stage loss divided by S.
C13_PerStageAveraging ==
    out.status = "ok" =>
        LET S == opt.num_stacks
            total == StageTotal(S) * LossFP
            lr == out.loss_results
        IN  /\ S * lr["hm"] = total
            /\ opt.wh_weight > 0 => S * lr["wh"] = total
            /\ (opt.reg_offset /\ opt.off_weight > 0) => S * lr["off"] = total
            /\ (~opt.unsup /\ opt.id_weight > 0) => S * lr["id"] = total
            /\ (opt.unsup /\ out.flipped) => S * lr[opt.unsup_loss] = total

\* C14: whenever the forward pass computes the size loss, the criterion it
\* calls for it is the one resolved as crit_wh at construction (dense L1,
\* normalised L1, class-specific L1 or the generic regression loss), and
\* the size loss is computed under every selection.
C14_SizeLossUsesCritWh ==
    (out # NoOut /\ opt.wh_weight > 0) =>
        /\ \A i \in 1..Len(out.calls) :
              out.calls[i].head = "wh" => out.calls[i].crit = loss.crit_wh
        /\ ~(out.status = "KeyError" /\ out.line = 78)

\* C15: with offset prediction disabled the forward pass computes no
\* offset loss, does not fail for the missing offset entry, and its offset
\* term adds 0 to det_loss.
C15_OffsetDisabledStillCompletes ==
    (out # NoOut /\ ~opt.reg_offset) =>
        /\ \A i \in 1..Len(out.calls) : out.calls[i].head # "reg"
        /\ ~(out.status = "KeyError" /\ out.line = 117)
        /\ out.status = "ok" =>
              2 * out.total.q =
                  Pow2(out.s_det) * (opt.hm_weight * out.loss_results["hm"]
                                       + opt.wh_weight * out.loss_results["wh"])
                  + Pow2(out.s_id) * IdLoss(out.loss_results, out.s_id)

\* C16: in supervised mode the fetch of every valid flat index completes
\* and returns img, hm, reg_mask, ind, wh, reg, ids and num_objs, and
\* neither flipped_img nor flipped_ind.
C16_SupervisedFetchCompletes ==
    (ret # NoRet /\ ~jd.unsup) =>
        /\ ret.status = "ok"
        /\ ret.keys = {"img", "hm", "reg_mask", "ind", "wh", "reg", "ids", "num_objs"}

\* C17: the num_objs of every returned sample is the number of positions
\* of its reg_mask that are 1.
C17_NumObjsCountsMask ==
    (ret # NoRet /\ ret.status = "ok") =>
        ret.num_objs = Cardinality({k \in 1..Len(ret.reg_mask) : ret.reg_mask[k] = 1})

====
